---- MODULE Spec2Model ----
(***************************************************************************)
(* BackupMate: restore_database of src/BackupMate/main.py (the packaged    *)
(* module the CLI and the tests call) and of src/db_backup_restore.py (the *)
(* variant that orders the inserts with topological_sort), run against a   *)
(* target store that may raise errors at every store call.                 *)
(*                                                                         *)
(* Tables are numbered 1..n in the order in which the document lists them; *)
(* table 0 is a table of the target that no document names.  Every table   *)
(* has an integer column "id" and a DateTime column "ts", and the          *)
(* descriptor of one further column whose type name may be unknown.        *)
(*                                                                         *)
(* Three specifications share the variables: Spec is restore_database,     *)
(* SpecBackup is backup_database writing its output file, SpecCodec is     *)
(* serialize_column followed by deserialize_column on one column.  In each *)
(* of them the variables of the other two stay at their idle values.       *)
(***************************************************************************)
EXTENDS Integers, Sequences, FiniteSets, TLC

\* ------------------------------------------------------------------ bounds
MaxTables == 2
MaxRows == 1
MaxRetriesArg == 2

\* ------------------------------------------------------------------ values
\* Python None: the result of topological_sort on a detected cycle.  Table
\* numbers are positive, so no order equals it.
None == <<0>>

\* SQL NULL / JSON null in a row.
NULL == "null"

\* Texts a document may hold in a DateTime column, by the first parser of the
\* restore path that accepts them.
TextISO == "2024-01-05T03:04:05"
TextFrac == "2024-1-5 3:04:05.5"
TextSec == "2024-1-5 3:04:05"
TextBad == "05/01/2024"

\* The datetime objects the parsers produce.
DT0 == "datetime(2024,1,5,3,4,5)"
DT5 == "datetime(2024,1,5,3,4,5,500000)"

\* Raised ValueError of a parser.
ValueError == "ValueError"

TsValues == {NULL, TextISO, TextFrac, TextSec, TextBad}

\* ------------------------------------------------------------- error kinds
\* OperationalError whose message contains 'database is locked'.
Locked == "locked"
\* Any other OperationalError.
Operational == "operational"
\* Any other SQLAlchemyError.
SQLAlchemy == "sqlalchemy"
\* Any other exception raised by a store call.
OtherException == "exception"
\* ValueError("Cannot perform restore due to cyclic dependencies.")
Cyclic == "cyclic"
\* ValueError of the last strptime of src/db_backup_restore.py.
BadDatetime == "bad_datetime"
\* The error create_all raises for an Index without columns; it is not the
\* locked error.
EmptyIndex == "empty_index"
\* ValueError("Unsupported column type: ...") of deserialize_column.
UnsupportedType == "unsupported_type"
NoError == "none"

StoreErrors == {Locked, Operational, SQLAlchemy, OtherException}

IsOperationalError(e) == e \in {Locked, Operational}

\* ------------------------------------------------------------ sequences
RECURSIVE SeqsUpTo(_, _)
SeqsUpTo(S, k) ==
    IF k = 0 THEN {<<>>}
    ELSE LET shorter == SeqsUpTo(S, k - 1)
         IN shorter \cup {Append(s, x) : s \in {q \in shorter : Len(q) = k - 1}, x \in S}

Range(s) == {s[i] : i \in 1..Len(s)}

\* Position of x in s, 0 when absent.
IndexOf(s, x) ==
    IF x \in Range(s) THEN CHOOSE i \in 1..Len(s) : s[i] = x /\ \A j \in 1..(i - 1) : s[j] # x
    ELSE 0

\* ------------------------------------------------------ the reverse table
\* The keys of STRING_TO_SQLALCHEMY_TYPE.
STRING_TO_SQLALCHEMY_TYPE ==
    {"Integer", "String", "Float", "Boolean", "DateTime", "Date", "Text", "Numeric",
     "LargeBinary", "Enum", "ARRAY"}

\* What the lookup of a missing key yields.
NoClass == "None"

\* A plausible slip: an unknown type name falls back to String, as the lookup
\* of an ARRAY's item type does.
TypeLookupOrString(col_type_name) ==
    IF col_type_name \in STRING_TO_SQLALCHEMY_TYPE THEN col_type_name ELSE "String"

\* STRING_TO_SQLALCHEMY_TYPE.get(col_type_name): the class of that name, or
\* the None of a missing key (NoClass, comparable with the class names).
TypeLookup(col_type_name) ==
    IF col_type_name \in STRING_TO_SQLALCHEMY_TYPE THEN col_type_name ELSE NoClass

\* A type name a document may carry that the reverse table does not know.
UnknownTypeName == "Geometry"

\* The version backup_database writes and restore_database assumes by default.
DefaultVersion == "1.0"
\* A version no backup_database of this program writes by itself.
UnknownVersion == "9.9"

\* ------------------------------------------------------------- the names
\* Column, table and index names are sequences of characters, so that the
\* test `col_name in idx` is the containment of one string in another.
NameId == <<"i", "d">>
NameTs == <<"t", "s">>
NameNote == <<"n", "o", "t", "e">>
NameUserId == <<"u", "s", "e", "r", "_", "i", "d">>
NameTitle == <<"t", "i", "t", "l", "e">>
NameOrder == <<"o", "r", "d", "e", "r">>
NameOrders == <<"o", "r", "d", "e", "r", "s">>

\* ix_<table>_<column>
IndexName(table_name, col_name) == <<"i", "x", "_">> \o table_name \o <<"_">> \o col_name

\* An index name that contains no column name of the model.
NameUnrelated == <<"u", "q", "_", "s", "l", "u", "g">>

\* sub in text, for two Python strings
Contains(text, sub) ==
    \E i \in 0..(Len(text) - Len(sub)) : SubSeq(text, i + 1, i + Len(sub)) = sub

\* --------------------------------------------------------- the documents
\* A document names tables 1..n; fks[t] is the set of tables the foreign keys
\* of t's columns reference, data[t] the rows of t, coltype[t] the type name
\* of the descriptor of a further column of t, columns[t] the names of the
\* columns of t and indexes[t] the index names of its schema.  A row has
\* the integer id, the DateTime ts and the String note, whose text reads
\* like a date.
RowsOf(t, tsSeq) ==
    [i \in 1..Len(tsSeq) |-> [id |-> 10 * t + i, ts |-> tsSeq[i], note |-> TextISO]]

Document(n, fks, tsSeq) ==
    [n |-> n, fks |-> fks, data |-> [t \in 1..n |-> RowsOf(t, tsSeq)],
     coltype |-> [t \in 1..n |-> "String"], version |-> DefaultVersion,
     columns |-> [t \in 1..n |-> <<NameId, NameTs, NameNote>>],
     indexes |-> [t \in 1..n |-> <<>>]]

\* Documents with every foreign-key structure over their tables, one row per
\* table.
OrderDocuments ==
    UNION {{Document(n, fks, <<TextISO>>) : fks \in [1..n -> SUBSET (1..n)]} :
           n \in 1..MaxTables}

\* Documents with every row list up to MaxRows rows, without foreign keys or
\* with every later table referencing table 1.
NoFks(n) == [t \in 1..n |-> {}]
StarFks(n) == [t \in 1..n |-> IF t = 1 THEN {} ELSE {1}]

DataDocuments ==
    UNION {{Document(n, fks, tsSeq) :
               fks \in {NoFks(n), StarFks(n)},
               tsSeq \in SeqsUpTo(TsValues, MaxRows)} : n \in 1..MaxTables}

\* Documents in which some table has a column descriptor of a type name the
\* reverse table lacks.
TypeDocuments ==
    UNION {{[Document(n, fks, <<TextISO>>) EXCEPT !.coltype = coltype] :
               fks \in {NoFks(n), StarFks(n)},
               coltype \in [1..n -> {"String", UnknownTypeName}] \ {[t \in 1..n |-> "String"]}} :
           n \in 1..MaxTables}

\* Documents of an unknown version.
VersionDocuments ==
    UNION {{[Document(n, fks, <<TextISO>>) EXCEPT !.version = UnknownVersion] :
               fks \in {NoFks(n), StarFks(n)}} : n \in 1..MaxTables}

\* Documents of one table, orders, with one index: named after one of its
\* columns, or after none.
ColumnLists ==
    {<<NameId>>, <<NameId, NameUserId>>, <<NameId, NameTitle>>, <<NameId, NameTitle, NameOrder>>,
     <<NameId, NameUserId, NameTitle, NameOrder>>}

IndexDocuments ==
    UNION {{[Document(1, NoFks(1), <<TextISO>>) EXCEPT
                !.columns = [t \in 1..1 |-> columns \o <<NameTs, NameNote>>],
                !.indexes = [t \in 1..1 |-> <<idx>>]] :
               idx \in {IndexName(NameOrders, columns[c]) : c \in 1..Len(columns)}
                        \cup {NameUnrelated}} :
           columns \in ColumnLists}

Documents ==
    OrderDocuments \cup DataDocuments \cup TypeDocuments \cup VersionDocuments
    \cup IndexDocuments

NoDocument ==
    [n |-> 0, fks |-> <<>>, data |-> <<>>, coltype |-> <<>>, version |-> DefaultVersion,
     columns |-> <<>>, indexes |-> <<>>]

\* Tables a target may hold before the restore, each with this one row.
AllTables == 0..MaxTables
OldRows == <<[id |-> 7, ts |-> DT0, note |-> TextBad]>>
Targets == SUBSET {0, 1}

\* ------------------------------------------------- Dependency Resolver
\* dependency_graph = defaultdict(set): a key exists only for a table with at
\* least one foreign key; keys are kept in insertion (document) order.
DependencyGraph(doc) ==
    [keys |-> SelectSeq([t \in 1..doc.n |-> t], LAMBDA t : doc.fks[t] # {}),
     adj |-> [t \in 1..doc.n |-> doc.fks[t]]]

\* in_degree[dep] += 1 for every dep of every key: the number of keys that
\* reference the table.
InDegree(graph) ==
    [x \in AllTables |-> Cardinality({k \in Range(graph.keys) : x \in graph.adj[k]})]

\* The inner for-loop of one pop: every key whose set contains the popped
\* table has its in_degree decremented and is enqueued when it reaches zero.
RECURSIVE Relax(_, _, _, _, _)
Relax(graph, table, i, in_degree, queue) ==
    IF i > Len(graph.keys) THEN [in_degree |-> in_degree, queue |-> queue]
    ELSE LET dependent == graph.keys[i]
         IN IF table \in graph.adj[dependent]
            THEN LET d == [in_degree EXCEPT ![dependent] = @ - 1]
                 IN Relax(graph, table, i + 1, d,
                          IF d[dependent] = 0 THEN Append(queue, dependent) ELSE queue)
            ELSE Relax(graph, table, i + 1, in_degree, queue)

\* The while-loop over the queue.
RECURSIVE Drain(_, _, _, _)
Drain(graph, in_degree, queue, sorted_list) ==
    IF queue = <<>> THEN sorted_list
    ELSE LET table == Head(queue)
             r == Relax(graph, table, 1, in_degree, Tail(queue))
         IN Drain(graph, r.in_degree, r.queue, Append(sorted_list, table))

\* A plausible slip: the length check is dropped, the partial order returned.
topological_sort_unchecked(graph) ==
    LET in_degree == InDegree(graph)
    IN Drain(graph, in_degree, SelectSeq(graph.keys, LAMBDA t : in_degree[t] = 0), <<>>)

topological_sort(graph) ==
    LET in_degree == InDegree(graph)
        queue == SelectSeq(graph.keys, LAMBDA t : in_degree[t] = 0)
        sorted_list == Drain(graph, in_degree, queue, <<>>)
    IN IF Len(sorted_list) # Len(graph.keys) THEN None ELSE sorted_list

\* ------------------------------------------------------- Value Coercer
fromisoformat(v) == IF v = TextISO THEN DT0 ELSE ValueError
strptime_f(v) == IF v = TextFrac THEN DT5 ELSE ValueError
strptime_s(v) == IF v = TextSec THEN DT0 ELSE ValueError

\* A plausible slip: the last fallback format is missing.
CoerceMainTwoParsers(v) ==
    IF v = NULL THEN NULL
    ELSE IF fromisoformat(v) # ValueError THEN fromisoformat(v)
    ELSE IF strptime_f(v) # ValueError THEN strptime_f(v)
    ELSE NULL

\* src/BackupMate/main.py: three parsers, then a warning and None.
CoerceMain(v) ==
    IF v = NULL THEN NULL
    ELSE IF fromisoformat(v) # ValueError THEN fromisoformat(v)
    ELSE IF strptime_f(v) # ValueError THEN strptime_f(v)
    ELSE IF strptime_s(v) # ValueError THEN strptime_s(v)
    ELSE NULL

\* src/db_backup_restore.py: two parsers, the ValueError of the second
\* propagates.
CoerceDbr(v) ==
    IF v = NULL THEN NULL
    ELSE IF fromisoformat(v) # ValueError THEN fromisoformat(v)
    ELSE strptime_f(v)

Coerce(variant, v) == IF variant = "main" THEN CoerceMain(v) ELSE CoerceDbr(v)

\* datetime_columns: the names of the columns of the reflected table whose
\* type is DateTime or Date.  Every table of the model has the columns
\* id (Integer), ts (DateTime) and note (String).
datetime_columns == {"ts"}

\* A coercer that treats every textual column as temporal.
ProcessedRowsEveryColumn(variant, rows) ==
    [i \in 1..Len(rows) |->
        [col \in DOMAIN rows[i] |->
            IF col \in {"ts", "note"} THEN Coerce(variant, rows[i][col]) ELSE rows[i][col]]]

\* processed_rows: the rows with the datetime columns coerced.
ProcessedRows(variant, rows) ==
    [i \in 1..Len(rows) |->
        [col \in DOMAIN rows[i] |->
            IF col \in datetime_columns THEN Coerce(variant, rows[i][col]) ELSE rows[i][col]]]

CoercionFails(variant, rows) ==
    \E i \in 1..Len(rows) : Coerce(variant, rows[i].ts) = ValueError

\* ------------------------------------------------------- the column codec
\* Python values of column attributes, written by the text str() gives them.
Py(kind, text) == [py |-> kind, v |-> text]
PyNone == Py("NoneType", "None")
PyTrue == Py("bool", "True")
PyFalse == Py("bool", "False")

\* str(x)
str(x) == Py("str", x.v)

\* bool(x) is False
Falsy(x) == x.v \in {"None", "False", "0", "0.0", ""}

\* A type class of sqlalchemy the isinstance chain does not know.
UnsupportedClass == "JSON"

\* The class, among the supported ones, a supported class derives from: Text
\* and Enum derive from String, Float derives from Numeric.
BaseClass(cls) ==
    CASE cls = "Text" -> "String"
      [] cls = "Enum" -> "String"
      [] cls = "Float" -> "Numeric"
      [] OTHER -> "TypeEngine"

\* A type object: its class, its length attribute (String and its subclasses),
\* its enums (Enum) and the class name of its item_type (ARRAY).
NoLength == "None"
ActiveInactive == <<"active", "inactive">>
TypeObject(cls, length, enums, item_type) ==
    [class |-> cls, length |-> length, enums |-> enums, item_type |-> item_type]

PlainType(cls) == TypeObject(cls, NoLength, <<>>, NoClass)

\* Enum(*values) sets its length to that of the longest value.
EnumLength(values) == IF values = ActiveInactive THEN "8" ELSE "0"

ColumnTypes ==
    {PlainType(cls) :
        cls \in (STRING_TO_SQLALCHEMY_TYPE \ {"Enum", "ARRAY"}) \cup {UnsupportedClass}}
    \cup {TypeObject("String", "50", <<>>, NoClass),
          TypeObject("Enum", EnumLength(ActiveInactive), ActiveInactive, NoClass)}
    \cup {TypeObject("ARRAY", NoLength, <<>>, item) : item \in {"String", "Integer", "VARCHAR"}}

ColumnDefaults ==
    {PyNone, Py("str", "active"), Py("int", "5"), Py("int", "0"), Py("float", "0.5"), PyFalse}

\* ForeignKey('users.id'): the table and the column it references.
UsersId == [table |-> "users", column |-> "id"]

\* Column(name, type, nullable=, primary_key=, unique=, default=): default is
\* the arg of the column's default, PyNone for a column without one.
Columns ==
    {[name |-> name, type |-> type, nullable |-> nullable, primary_key |-> primary_key,
      unique |-> unique, default |-> default, foreign_keys |-> foreign_keys] :
        name \in {"id", "status"}, type \in ColumnTypes, nullable \in BOOLEAN,
        primary_key \in BOOLEAN, unique \in {PyNone, PyTrue, PyFalse},
        default \in ColumnDefaults, foreign_keys \in {{}, {UsersId}}}

isinstance(type, cls) == type.class = cls \/ BaseClass(type.class) = cls

\* The order of the isinstance checks of serialize_column.
IsInstanceChain ==
    <<"Integer", "String", "Float", "Boolean", "DateTime", "Date", "Text", "Numeric",
      "LargeBinary", "Enum", "ARRAY">>

\* type_name: the class of the first check that succeeds; NoClass when none
\* does and serialize_column raises.
TypeName(type) ==
    LET hits == {i \in 1..Len(IsInstanceChain) : isinstance(type, IsInstanceChain[i])}
    IN IF hits = {} THEN NoClass
       ELSE IsInstanceChain[CHOOSE i \in hits : \A j \in hits : i <= j]

\* SQLALCHEMY_TYPE_MAPPING[type_name]['args']
SQLALCHEMY_TYPE_MAPPING(type_name) ==
    CASE type_name = "String" -> {"length"}
      [] type_name = "Enum" -> {"enum_values"}
      [] type_name = "ARRAY" -> {"item_type"}
      [] OTHER -> {}

\* hasattr(column.type, 'length')
HasLength(type) == isinstance(type, "String") \/ type.class = "LargeBinary"

\* col_type: the type name and its type-specific arguments.
SerializeType(type) ==
    LET type_name == TypeName(type)
        args == SQLALCHEMY_TYPE_MAPPING(type_name)
    IN IF "length" \in args /\ HasLength(type)
       THEN [type |-> type_name, length |-> type.length]
       ELSE IF "enum_values" \in args /\ isinstance(type, "Enum")
       THEN [type |-> type_name, enum_values |-> type.enums]
       ELSE IF "item_type" \in args /\ isinstance(type, "ARRAY")
       THEN [type |-> type_name, item_type |-> type.item_type]
       ELSE [type |-> type_name]

\* serialize_column returns for this column; it raises ValueError otherwise.
Serializable(column) == TypeName(column.type) # NoClass

\* A plausible slip: the truth of the default's value is tested, not the
\* presence of a default.
SerializedDefaultIfTruthy(column) ==
    IF ~Falsy(column.default) THEN str(column.default) ELSE PyNone

\* 'default': str(column.default.arg) if column.default else None
SerializedDefault(column) ==
    IF column.default # PyNone THEN str(column.default) ELSE PyNone

serialize_column(column) ==
    [name |-> column.name,
     type |-> SerializeType(column.type),
     nullable |-> column.nullable,
     primary_key |-> column.primary_key,
     unique |-> column.unique,
     default |-> SerializedDefault(column),
     foreign_keys |-> column.foreign_keys,
     index |-> FALSE]

\* STRING_TO_SQLALCHEMY_TYPE.get(col_type_info['item_type'], String)
ItemTypeLookup(item_type) ==
    IF item_type \in STRING_TO_SQLALCHEMY_TYPE THEN item_type ELSE "String"

\* deserialize_column returns for this descriptor; it raises otherwise.
Deserializable(col_dict) ==
    /\ TypeLookup(col_dict.type.type) # NoClass
    /\ col_dict.type.type = "ARRAY" => "item_type" \in DOMAIN col_dict.type

\* col_type: the type object rebuilt from the type name and its arguments.
DeserializeType(col_type_info) ==
    LET col_type_name == col_type_info.type
    IN IF col_type_name = "Enum"
       THEN LET values == IF "enum_values" \in DOMAIN col_type_info
                          THEN col_type_info.enum_values ELSE <<>>
            IN TypeObject("Enum", EnumLength(values), values, NoClass)
       ELSE IF col_type_name = "ARRAY"
       THEN TypeObject("ARRAY", NoLength, <<>>, ItemTypeLookup(col_type_info.item_type))
       ELSE IF col_type_name = "String" /\ "length" \in DOMAIN col_type_info
       THEN TypeObject("String", col_type_info.length, <<>>, NoClass)
       ELSE PlainType(col_type_name)

\* col_dict.get(key, value)
Get(col_dict, key, value) == IF key \in DOMAIN col_dict THEN col_dict[key] ELSE value

\* A plausible slip: the flags of the descriptor are not passed on.
ColumnKwargsDefaults(col_dict) ==
    [nullable |-> TRUE, primary_key |-> FALSE, unique |-> PyFalse, default |-> col_dict.default]

\* column_kwargs
ColumnKwargs(col_dict) ==
    [nullable |-> Get(col_dict, "nullable", TRUE),
     primary_key |-> Get(col_dict, "primary_key", FALSE),
     unique |-> Get(col_dict, "unique", PyFalse),
     default |-> col_dict.default]

deserialize_column(col_dict) ==
    LET column_kwargs == ColumnKwargs(col_dict)
    IN [name |-> col_dict.name,
        type |-> DeserializeType(col_dict.type),
        nullable |-> column_kwargs.nullable,
        primary_key |-> column_kwargs.primary_key,
        unique |-> column_kwargs.unique,
        default |-> column_kwargs.default,
        foreign_keys |-> Get(col_dict, "foreign_keys", {})]

\* ---------------------------------------------------------------- state
VARIABLES
    variant,        \* "main": src/BackupMate/main.py, "dbr": src/db_backup_restore.py
    input_file,     \* the document stored in the input file
    max_retries,    \* argument of restore_database
    pc,             \* position in restore_database
    retries,        \* local counter of restore_database
    backup_data,    \* the document as loaded (and mutated) by the attempt
    metadata,       \* tables defined in the attempt's MetaData
    table_indexes,  \* the Index objects appended to each table of the MetaData
    sorted_tables,  \* result of topological_sort in the attempt
    cursor,         \* position of the insert loop in its table order
    dbTables,       \* tables that exist in the target (committed)
    dbRows,         \* committed rows of every table of the target
    txRows,         \* rows as seen inside the attempt's transaction
    foreign_keys,   \* PRAGMA foreign_keys of the attempt's connection
    result,         \* "running", "success" (logged, returned) or "failed"
    lastError,      \* the error that ended the latest failed attempt
    attempts,       \* attempts started in this call
    sleeps,         \* time.sleep(retry_delay) calls in this call
    lockedCount,    \* attempts of this call that ended with the locked error
    inserted,       \* tables filled so far in the attempt, in order
    created,        \* create_all was issued in the attempt
    resolved,       \* topological_sort was called in the attempt
    phases,         \* the phases the attempt has completed, in order
    db0Tables,      \* the target's tables when this call started
    db0Rows,        \* the target's rows when this call started
    second,         \* this is the second call in a row with the same document
    rows1,          \* the target's rows after the first successful call
    column,         \* the Column given to serialize_column
    col_dict,       \* the descriptor serialize_column returned
    decoded,        \* the Column deserialize_column returned
    cpc,            \* position of the codec round trip
    reflected,      \* the columns of the tables metadata.reflect found, in order
    include_relationships,  \* argument of backup_database
    output0,        \* what the output path held when backup_database was called
    bpc,            \* position in backup_database
    backup_tables,  \* backup_data['tables'] of backup_database
    relationships,  \* backup_data has its 'relationships' entry
    output_file,    \* what the output path holds
    bresult         \* "running", "success" (logged) or "failed" (logged)

inputs == <<variant, input_file, max_retries>>
locals == <<retries, backup_data, metadata, table_indexes, sorted_tables, cursor>>
store == <<dbTables, dbRows, txRows, foreign_keys>>
counters == <<attempts, sleeps, lockedCount>>
attemptLog == <<inserted, created, resolved>>
callLog == <<db0Tables, db0Rows, second, rows1>>
restoreVars ==
    <<inputs, pc, locals, store, result, lastError, counters, attemptLog, phases, callLog>>
codecVars == <<column, col_dict, decoded, cpc>>
backupVars ==
    <<reflected, include_relationships, output0, bpc, backup_tables, relationships, output_file,
      bresult>>
vars == <<restoreVars, codecVars, backupVars>>

NoRows == [t \in AllTables |-> <<>>]
NoIndexes == [t \in AllTables |-> <<>>]

\* No codec round trip and no backup is under way.
CodecIdle == column = PyNone /\ col_dict = PyNone /\ decoded = PyNone /\ cpc = "idle"

NoFile == [exists |-> FALSE, content |-> <<>>]

\* backup_data without a 'relationships' entry.
NoRelationships == [present |-> FALSE, map |-> <<>>]

BackupIdle ==
    /\ reflected = <<>>
    /\ include_relationships = FALSE
    /\ output0 = NoFile
    /\ bpc = "idle"
    /\ backup_tables = <<>>
    /\ relationships = NoRelationships
    /\ output_file = NoFile
    /\ bresult = "idle"

Init ==
    /\ variant \in {"main", "dbr"}
    /\ input_file \in Documents
    /\ max_retries \in 0..MaxRetriesArg
    /\ pc = "while"
    /\ retries = 0
    /\ backup_data = NoDocument
    /\ metadata = {}
    /\ table_indexes = NoIndexes
    /\ sorted_tables = None
    /\ cursor = 1
    /\ dbTables \in Targets
    /\ dbRows = [t \in AllTables |-> IF t \in dbTables THEN OldRows ELSE <<>>]
    /\ txRows = dbRows
    /\ foreign_keys = "default"
    /\ result = "running"
    /\ lastError = NoError
    /\ attempts = 0
    /\ sleeps = 0
    /\ lockedCount = 0
    /\ inserted = <<>>
    /\ created = FALSE
    /\ resolved = FALSE
    /\ phases = <<>>
    /\ db0Tables = dbTables
    /\ db0Rows = dbRows
    /\ second = FALSE
    /\ rows1 = NoRows
    /\ CodecIdle
    /\ BackupIdle

\* ------------------------------------------------------- the retry loop
\* A plausible slip: one attempt too many.
LoopConditionInclusive(r, m) == r <= m

\* while retries < max_retries
LoopCondition(r, m) == r < m

\* A plausible slip: every OperationalError is retried.
ExceptClauseAnyOperational(e) == IF IsOperationalError(e) THEN "retry" ELSE "break"

\* The except clauses: only an OperationalError whose message contains
\* 'database is locked' is retried, everything else breaks out of the loop.
ExceptClause(e) == IF IsOperationalError(e) /\ e = Locked THEN "retry" ELSE "break"

\* A plausible slip: the counter is not advanced after a locked attempt.
RetriesUnchanged(r) == r

\* retries += 1
RetriesIncrement(r) == r + 1

\* An exception leaves the with-blocks (the transaction is rolled back) and
\* reaches the except clauses; after a break the final error is logged.
Raise(e) ==
    /\ txRows' = dbRows
    /\ lastError' = e
    /\ lockedCount' = IF e = Locked THEN lockedCount + 1 ELSE lockedCount
    /\ UNCHANGED attempts
    /\ IF ExceptClause(e) = "retry"
       THEN /\ retries' = RetriesIncrement(retries)
            /\ sleeps' = sleeps + 1
            /\ pc' = "while"
            /\ UNCHANGED result
       ELSE /\ pc' = "done"
            /\ result' = "failed"
            /\ UNCHANGED <<retries, sleeps>>

\* The loop head: a new attempt with a fresh engine, MetaData and session, or
\* the end of the loop and the final error log. The locals backup_data and
\* sorted_tables keep the objects of the previous attempt until the new
\* attempt assigns them.
Loop ==
    /\ pc = "while"
    /\ IF LoopCondition(retries, max_retries)
       THEN /\ pc' = "connect"
            /\ attempts' = attempts + 1
            /\ metadata' = {}
            /\ table_indexes' = NoIndexes
            /\ cursor' = 1
            /\ inserted' = <<>>
            /\ created' = FALSE
            /\ resolved' = FALSE
            /\ phases' = <<>>
            /\ UNCHANGED result
       ELSE /\ pc' = "done"
            /\ result' = "failed"
            /\ UNCHANGED <<attempts, metadata, table_indexes, cursor, attemptLog, phases>>
    /\ UNCHANGED <<codecVars, backupVars>>
    /\ UNCHANGED <<inputs, retries, backup_data, sorted_tables, store, lastError, sleeps,
                   lockedCount, callLog>>

\* ------------------------------------------------------------ one attempt
\* engine.connect() and connection.begin()
Connect ==
    /\ pc = "connect"
    /\ pc' = "disable"
    /\ foreign_keys' = "default"
    /\ UNCHANGED <<codecVars, backupVars>>
    /\ UNCHANGED <<inputs, locals, dbTables, dbRows, txRows, result, lastError, counters,
                   attemptLog, phases, callLog>>

\* PRAGMA foreign_keys = OFF
DisableConstraints ==
    /\ pc = "disable"
    /\ pc' = "load"
    /\ foreign_keys' = "OFF"
    /\ phases' = Append(phases, "DisableConstraints")
    /\ UNCHANGED <<codecVars, backupVars>>
    /\ UNCHANGED <<inputs, locals, dbTables, dbRows, txRows, result, lastError, counters,
                   attemptLog, callLog>>

\* A plausible slip: the document of the previous attempt is kept when there
\* is one.
json_load_cached(f, previous) == IF previous # NoDocument THEN previous ELSE f

\* backup_data = json.load(f): a new object built from the file's content,
\* whatever the local held before.
json_load(f, previous) == f

\* open(input_file) and json.load; the version is read and logged, nothing
\* else is done with it.
LoadDocument ==
    /\ pc = "load"
    /\ pc' = "define"
    /\ backup_data' = json_load(input_file, backup_data)
    /\ UNCHANGED <<codecVars, backupVars>>
    /\ UNCHANGED <<inputs, retries, metadata, table_indexes, sorted_tables, cursor, store, result, lastError,
                   counters, attemptLog, phases, callLog>>

\* The first table of the document, in document order, one of whose column
\* descriptors makes deserialize_column raise; 0 when there is none.
FirstUnsupported(doc) ==
    LET bad == {t \in 1..doc.n : TypeLookup(doc.coltype[t]) = NoClass}
    IN IF bad = {} THEN 0 ELSE CHOOSE t \in bad : \A u \in bad : t <= u

\* index_columns: the columns of the table whose name is contained in the
\* index name, in the table's column order.
IndexColumns(columns, idx) == SelectSeq(columns, LAMBDA col_name : Contains(idx, col_name))

\* The Index objects the loop over the schema's indexes appends to a table.
\* src/BackupMate/main.py skips, with a warning, an index for which no column
\* was found; src/db_backup_restore.py builds Index(idx) without columns.
IndexesOf(v, columns, indexes) ==
    LET all == [i \in 1..Len(indexes) |->
                   [name |-> indexes[i], columns |-> IndexColumns(columns, indexes[i])]]
    IN IF v = "main" THEN SelectSeq(all, LAMBDA index_obj : index_obj.columns # <<>>) ELSE all

DefinedIndexes(v, doc, tables) ==
    [t \in AllTables |->
        IF t \in tables THEN IndexesOf(v, doc.columns[t], doc.indexes[t]) ELSE <<>>]

\* The tables of the document are defined in the fresh MetaData one after the
\* other; a descriptor of an unsupported type raises out of the loop, with
\* the tables before it defined.
DefineTables ==
    /\ pc = "define"
    /\ LET bad == FirstUnsupported(backup_data)
       IN IF bad # 0
          THEN /\ metadata' = 1..(bad - 1)
               /\ table_indexes' = DefinedIndexes(variant, backup_data, 1..(bad - 1))
               /\ Raise(UnsupportedType)
               /\ UNCHANGED phases
          ELSE /\ metadata' = 1..backup_data.n
               /\ table_indexes' = DefinedIndexes(variant, backup_data, 1..backup_data.n)
               /\ pc' = "create"
               /\ phases' = Append(phases, "DefineTables")
               /\ UNCHANGED <<retries, txRows, result, lastError, counters>>
    /\ UNCHANGED <<codecVars, backupVars>>
    /\ UNCHANGED <<inputs, backup_data, sorted_tables, cursor, dbTables, dbRows, foreign_keys,
                   attemptLog, callLog>>

\* A plausible slip: the tables of the document are dropped before they are
\* created, which empties those that existed.
DropAndCreateTables ==
    /\ pc = "create"
    /\ pc' = IF variant = "main" THEN "insert" ELSE "resolve"
    /\ dbTables' = dbTables \cup metadata
    /\ dbRows' = [t \in AllTables |-> IF t \in metadata THEN <<>> ELSE dbRows[t]]
    /\ txRows' = dbRows'
    /\ created' = TRUE
    /\ phases' = Append(phases, "CreateTables")
    /\ UNCHANGED <<codecVars, backupVars>>
    /\ UNCHANGED <<inputs, locals, foreign_keys, result, lastError, counters, inserted, resolved,
                   callLog>>

\* The first table of the MetaData with an Index that has no column, 0 when
\* there is none: CREATE INDEX for it is not valid SQL and create_all raises.
FirstEmptyIndex(tables, indexes) ==
    LET bad == {t \in tables : \E i \in 1..Len(indexes[t]) : indexes[t][i].columns = <<>>}
    IN IF bad = {} THEN 0 ELSE CHOOSE t \in bad : \A u \in bad : t <= u

\* metadata.create_all(engine): issued through the engine, on a connection of
\* its own, so the tables are committed whatever happens to the attempt's
\* transaction; tables that exist are left alone.  When the CREATE INDEX of
\* a table fails, the tables created before it stay or not, as the driver's
\* handling of DDL in transactions decides.
CreateTables ==
    /\ pc = "create"
    /\ created' = TRUE
    /\ LET bad == FirstEmptyIndex(metadata, table_indexes)
       IN IF bad # 0
          THEN /\ Raise(EmptyIndex)
               /\ dbTables' \in {dbTables, dbTables \cup {t \in metadata : t <= bad}}
               /\ UNCHANGED phases
          ELSE /\ pc' = IF variant = "main" THEN "insert" ELSE "resolve"
               /\ dbTables' = dbTables \cup metadata
               /\ phases' = Append(phases, "CreateTables")
               /\ UNCHANGED <<retries, txRows, result, lastError, counters>>
    /\ UNCHANGED <<codecVars, backupVars>>
    /\ UNCHANGED <<inputs, backup_data, metadata, table_indexes, sorted_tables, cursor, dbRows,
                   foreign_keys, inserted, resolved, callLog>>

\* src/db_backup_restore.py only: the graph is built, sorted, and a falsy
\* result (None or the empty list) raises the cyclic-dependency ValueError.
ResolveOrder ==
    /\ pc = "resolve"
    /\ LET order == topological_sort(DependencyGraph(backup_data))
       IN /\ sorted_tables' = order
          /\ IF order = None \/ order = <<>>
             THEN /\ Raise(Cyclic)
                  /\ UNCHANGED <<dbTables, dbRows, phases>>
             ELSE /\ pc' = "insert"
                  /\ phases' = Append(phases, "ResolveOrder")
                  /\ UNCHANGED <<retries, dbTables, dbRows, txRows, result, lastError,
                                 counters>>
    /\ resolved' = TRUE
    /\ UNCHANGED <<codecVars, backupVars>>
    /\ UNCHANGED <<inputs, backup_data, metadata, table_indexes, cursor, foreign_keys, inserted, created,
                   callLog>>

\* The order of the insert loop: the document's order in main.py, the
\* resolved order in db_backup_restore.py.
InsertOrder == IF variant = "main" THEN [t \in 1..backup_data.n |-> t] ELSE sorted_tables

\* A plausible slip: the table is not cleared before its rows are inserted.
InsertWithoutClear(existing, processed_rows) == existing \o processed_rows

\* connection.execute(table.delete()) and then, for a non-empty data list,
\* connection.execute(table.insert(), processed_rows).
ClearAndInsert(existing, processed_rows) == processed_rows

\* A plausible slip: the loop clears every table of the target, not only the
\* table it is about to fill.
InsertDataClearsTarget ==
    /\ pc = "insert"
    /\ LET table_name == InsertOrder[cursor]
           rows == backup_data.data[table_name]
       IN IF CoercionFails(variant, rows)
          THEN /\ Raise(BadDatetime)
               /\ UNCHANGED <<dbTables, dbRows, backup_data, cursor, inserted, phases>>
          ELSE LET processed_rows == ProcessedRows(variant, rows)
               IN /\ txRows' = [t \in AllTables |->
                                   IF t = table_name THEN ClearAndInsert(txRows[t], processed_rows)
                                   ELSE IF t \in Range(inserted) THEN txRows[t]
                                   ELSE <<>>]
                  /\ backup_data' = [backup_data EXCEPT !.data[table_name] = processed_rows]
                  /\ inserted' = Append(inserted, table_name)
                  /\ phases' = Append(phases, "InsertData")
                  /\ cursor' = cursor + 1
                  /\ pc' = IF cursor = Len(InsertOrder) THEN "enable" ELSE "insert"
                  /\ UNCHANGED <<retries, dbTables, dbRows, result, lastError, counters>>
    /\ UNCHANGED <<codecVars, backupVars>>
    /\ UNCHANGED <<inputs, metadata, table_indexes, sorted_tables, foreign_keys, created, resolved, callLog>>

\* A plausible slip: every statement of the insert loop is committed as it
\* is executed (a connection in autocommit mode, no enclosing transaction).
InsertDataAutocommit ==
    /\ pc = "insert"
    /\ LET table_name == InsertOrder[cursor]
           rows == backup_data.data[table_name]
       IN IF CoercionFails(variant, rows)
          THEN /\ Raise(BadDatetime)
               /\ UNCHANGED <<dbTables, dbRows, backup_data, cursor, inserted, phases>>
          ELSE LET processed_rows == ProcessedRows(variant, rows)
               IN /\ txRows' = [txRows EXCEPT ![table_name] = ClearAndInsert(@, processed_rows)]
                  /\ dbRows' = txRows'
                  /\ backup_data' = [backup_data EXCEPT !.data[table_name] = processed_rows]
                  /\ inserted' = Append(inserted, table_name)
                  /\ phases' = Append(phases, "InsertData")
                  /\ cursor' = cursor + 1
                  /\ pc' = IF cursor = Len(InsertOrder) THEN "enable" ELSE "insert"
                  /\ UNCHANGED <<retries, dbTables, result, lastError, counters>>
    /\ UNCHANGED <<codecVars, backupVars>>
    /\ UNCHANGED <<inputs, metadata, table_indexes, sorted_tables, foreign_keys, created, resolved, callLog>>

\* One iteration of the insert loop.
InsertData ==
    /\ pc = "insert"
    /\ LET table_name == InsertOrder[cursor]
           rows == backup_data.data[table_name]
       IN IF CoercionFails(variant, rows)
          THEN /\ Raise(BadDatetime)
               /\ UNCHANGED <<dbTables, dbRows, backup_data, cursor, inserted, phases>>
          ELSE LET processed_rows == ProcessedRows(variant, rows)
               IN /\ txRows' = [txRows EXCEPT ![table_name] = ClearAndInsert(@, processed_rows)]
                  /\ backup_data' = [backup_data EXCEPT !.data[table_name] = processed_rows]
                  /\ inserted' = Append(inserted, table_name)
                  /\ phases' = Append(phases, "InsertData")
                  /\ cursor' = cursor + 1
                  /\ pc' = IF cursor = Len(InsertOrder) THEN "enable" ELSE "insert"
                  /\ UNCHANGED <<retries, dbTables, dbRows, result, lastError, counters>>
    /\ UNCHANGED <<codecVars, backupVars>>
    /\ UNCHANGED <<inputs, metadata, table_indexes, sorted_tables, foreign_keys, created, resolved, callLog>>

\* PRAGMA foreign_keys = ON
EnableConstraints ==
    /\ pc = "enable"
    /\ pc' = "commit"
    /\ foreign_keys' = "ON"
    /\ phases' = Append(phases, "EnableConstraints")
    /\ UNCHANGED <<codecVars, backupVars>>
    /\ UNCHANGED <<inputs, locals, dbTables, dbRows, txRows, result, lastError, counters,
                   attemptLog, callLog>>

\* The transaction commits at the end of the with-block; session.commit(),
\* the success log and the return follow.
Commit ==
    /\ pc = "commit"
    /\ pc' = "done"
    /\ dbRows' = txRows
    /\ result' = "success"
    /\ rows1' = IF second THEN rows1 ELSE txRows
    /\ phases' = Append(phases, "Commit")
    /\ UNCHANGED <<codecVars, backupVars>>
    /\ UNCHANGED <<inputs, locals, dbTables, txRows, foreign_keys, lastError, counters,
                   attemptLog, db0Tables, db0Rows, second>>

\* A store call of the attempt raises instead of returning.
StoreSteps == {"connect", "disable", "create", "insert", "enable", "commit"}

StoreFault ==
    /\ pc \in StoreSteps
    /\ \E e \in StoreErrors : Raise(e)
    /\ UNCHANGED <<codecVars, backupVars>>
    /\ UNCHANGED <<inputs, backup_data, metadata, table_indexes, sorted_tables, cursor, dbTables, dbRows,
                   foreign_keys, attemptLog, phases, callLog>>

\* restore_database is called again with the same arguments after a success.
Rerun ==
    /\ pc = "done"
    /\ result = "success"
    /\ ~second
    /\ second' = TRUE
    /\ pc' = "while"
    /\ retries' = 0
    /\ result' = "running"
    /\ lastError' = NoError
    /\ attempts' = 0
    /\ sleeps' = 0
    /\ lockedCount' = 0
    /\ db0Tables' = dbTables
    /\ db0Rows' = dbRows
    /\ UNCHANGED <<codecVars, backupVars>>
    /\ UNCHANGED <<inputs, backup_data, metadata, table_indexes, sorted_tables, cursor, store, attemptLog,
                   phases, rows1>>

Next ==
    \/ Loop
    \/ Connect
    \/ DisableConstraints
    \/ LoadDocument
    \/ DefineTables
    \/ CreateTables
    \/ ResolveOrder
    \/ InsertData
    \/ EnableConstraints
    \/ Commit
    \/ StoreFault
    \/ Rerun

Spec == Init /\ [][Next]_vars

\* The calls whose termination is checked: every variant, max_retries and
\* target, on the documents of every family but the one that enumerates all
\* foreign-key structures (its documents differ from the others only in what
\* the resolver returns, which the other families cover: an order, a partial
\* order, the cyclic error).
InitLive ==
    /\ Init
    /\ input_file \in DataDocuments \cup TypeDocuments \cup VersionDocuments \cup IndexDocuments

\* The same program under the assumption that every store call returns: a
\* step of the sequential code that can be taken is eventually taken.  No
\* fairness is asked of any particular outcome of a store call.
SpecLive == InitLive /\ [][Next]_vars /\ WF_vars(Next)

\* No restore is under way.
RestoreIdle ==
    /\ variant = "main"
    /\ input_file = NoDocument
    /\ max_retries = 0
    /\ pc = "idle"
    /\ retries = 0
    /\ backup_data = NoDocument
    /\ metadata = {}
    /\ table_indexes = NoIndexes
    /\ sorted_tables = None
    /\ cursor = 1
    /\ dbTables = {}
    /\ dbRows = NoRows
    /\ txRows = NoRows
    /\ foreign_keys = "default"
    /\ result = "idle"
    /\ lastError = NoError
    /\ attempts = 0
    /\ sleeps = 0
    /\ lockedCount = 0
    /\ inserted = <<>>
    /\ created = FALSE
    /\ resolved = FALSE
    /\ phases = <<>>
    /\ db0Tables = {}
    /\ db0Rows = NoRows
    /\ second = FALSE
    /\ rows1 = NoRows

\* ------------------------------------------------------- backup_database
\* The columns a table of the source may consist of: one per table here.
SourceColumns ==
    {[name |-> "id", type |-> PlainType("Integer"), nullable |-> FALSE, primary_key |-> TRUE,
      unique |-> PyNone, default |-> PyNone, foreign_keys |-> {}],
     [name |-> "status", type |-> PlainType("Text"), nullable |-> TRUE, primary_key |-> FALSE,
      unique |-> PyNone, default |-> PyNone, foreign_keys |-> {}],
     [name |-> "user_id", type |-> PlainType("Integer"), nullable |-> TRUE,
      primary_key |-> FALSE, unique |-> PyNone, default |-> PyNone, foreign_keys |-> {UsersId}],
     [name |-> "payload", type |-> PlainType(UnsupportedClass), nullable |-> TRUE,
      primary_key |-> FALSE, unique |-> PyNone, default |-> PyNone, foreign_keys |-> {}]}

\* What json.dump writes, piece by piece: the opening with the version, one
\* entry per table, the relationships when there are any, the closing.
Chunk(kind, body) == [kind |-> kind, body |-> body]
DumpChunks(tables, rels) ==
    <<Chunk("version", PyNone)>>
    \o [i \in 1..Len(tables) |-> Chunk("table", tables[i])]
    \o (IF rels.present THEN <<Chunk("relationships", [map |-> rels.map])>> ELSE <<>>)
    \o <<Chunk("end", PyNone)>>

\* A complete document written by an earlier backup.
OldFile ==
    [exists |-> TRUE,
     content |-> DumpChunks(<<serialize_column(CHOOSE c \in SourceColumns : c.name = "id")>>,
                            NoRelationships)]

InitBackup ==
    /\ RestoreIdle
    /\ CodecIdle
    /\ reflected \in SeqsUpTo(SourceColumns, MaxTables)
    /\ include_relationships \in BOOLEAN
    /\ output0 \in {NoFile, OldFile}
    /\ bpc = "reflect"
    /\ backup_tables = <<>>
    /\ relationships = NoRelationships
    /\ output_file = output0
    /\ bresult = "running"

\* Where backup_database goes after the loop over the tables.
AfterTables == IF include_relationships THEN "relationships" ELSE "open"

\* An exception reaches the except clauses: it is logged and the function
\* returns.
BackupRaise ==
    /\ bpc' = "done"
    /\ bresult' = "failed"

\* create_engine, MetaData().reflect and engine.connect()
Reflect ==
    /\ bpc = "reflect"
    /\ bpc' = IF reflected = <<>> THEN AfterTables ELSE "tables"
    /\ UNCHANGED <<reflected, include_relationships, output0, backup_tables, relationships,
                   output_file, bresult>>
    /\ UNCHANGED <<restoreVars, codecVars>>

\* One iteration of the loop over metadata.tables: the columns are
\* serialized, the rows are selected, the entry is stored in backup_data.
BackupTable ==
    /\ bpc = "tables"
    /\ LET col == reflected[Len(backup_tables) + 1]
       IN IF ~Serializable(col)
          THEN /\ BackupRaise
               /\ UNCHANGED backup_tables
          ELSE /\ backup_tables' = Append(backup_tables, serialize_column(col))
               /\ bpc' = IF Len(backup_tables) + 1 = Len(reflected) THEN AfterTables ELSE "tables"
               /\ UNCHANGED bresult
    /\ UNCHANGED <<reflected, include_relationships, output0, relationships, output_file>>
    /\ UNCHANGED <<restoreVars, codecVars>>

\* A plausible slip: only a table that has foreign keys gets an entry.
RelationshipsOfReferencing(tables) ==
    [t \in {u \in 1..Len(tables) : tables[u].foreign_keys # {}} |->
        {[column |-> tables[t].name, referenced_table |-> fk.table,
          referenced_column |-> fk.column] : fk \in tables[t].foreign_keys}]

\* relationships[table.name] = rels, for every table of metadata.tables: one
\* entry per foreign key of the table.
RelationshipsOf(tables) ==
    [t \in 1..Len(tables) |->
        {[column |-> tables[t].name, referenced_table |-> fk.table,
          referenced_column |-> fk.column] : fk \in tables[t].foreign_keys}]

\* if include_relationships: backup_data['relationships'] = relationships
SerializeRelationships ==
    /\ bpc = "relationships"
    /\ relationships' = [present |-> TRUE, map |-> RelationshipsOf(reflected)]
    /\ bpc' = "open"
    /\ UNCHANGED <<reflected, include_relationships, output0, backup_tables, output_file,
                   bresult>>
    /\ UNCHANGED <<restoreVars, codecVars>>

\* open(output_file, 'w'): the file is created, or emptied when it exists.
OpenOutput ==
    /\ bpc = "open"
    /\ output_file' = [exists |-> TRUE, content |-> <<>>]
    /\ bpc' = "dump"
    /\ UNCHANGED <<reflected, include_relationships, output0, backup_tables, relationships,
                   bresult>>
    /\ UNCHANGED <<restoreVars, codecVars>>

\* json.dump writes the next piece; after the last one the file is closed
\* and the success is logged.
Dump ==
    /\ bpc = "dump"
    /\ LET chunks == DumpChunks(backup_tables, relationships)
           k == Len(output_file.content) + 1
       IN /\ output_file' = [output_file EXCEPT !.content = Append(@, chunks[k])]
          /\ IF k = Len(chunks)
             THEN bpc' = "done" /\ bresult' = "success"
             ELSE UNCHANGED <<bpc, bresult>>
    /\ UNCHANGED <<reflected, include_relationships, output0, backup_tables, relationships>>
    /\ UNCHANGED <<restoreVars, codecVars>>

\* reflect or a select raises SQLAlchemyError.
BackupStoreFault ==
    /\ bpc \in {"reflect", "tables"}
    /\ BackupRaise
    /\ UNCHANGED <<reflected, include_relationships, output0, backup_tables, relationships,
                   output_file>>
    /\ UNCHANGED <<restoreVars, codecVars>>

\* open or a write raises OSError; what was written stays in the file.
OutputFault ==
    /\ bpc \in {"open", "dump"}
    /\ BackupRaise
    /\ UNCHANGED <<reflected, include_relationships, output0, backup_tables, relationships,
                   output_file>>
    /\ UNCHANGED <<restoreVars, codecVars>>

NextBackup ==
    \/ Reflect
    \/ BackupTable
    \/ SerializeRelationships
    \/ OpenOutput
    \/ Dump
    \/ BackupStoreFault
    \/ OutputFault

SpecBackup == InitBackup /\ [][NextBackup]_vars

\* ------------------------------------------------- the codec round trip
\* deserialize_column(serialize_column(column), metadata), as the tests and a
\* backup followed by a restore do it.
InitCodec ==
    /\ RestoreIdle
    /\ BackupIdle
    /\ column \in Columns
    /\ col_dict = PyNone
    /\ decoded = PyNone
    /\ cpc = "serialize"

\* serialize_column(column): the descriptor, or the ValueError of a type no
\* isinstance check accepts, logged and raised again.
SerializeColumn ==
    /\ cpc = "serialize"
    /\ IF Serializable(column)
       THEN col_dict' = serialize_column(column) /\ cpc' = "deserialize"
       ELSE cpc' = "raised" /\ UNCHANGED col_dict
    /\ UNCHANGED <<column, decoded>>
    /\ UNCHANGED <<restoreVars, backupVars>>

\* deserialize_column(col_dict, metadata)
DeserializeColumn ==
    /\ cpc = "deserialize"
    /\ IF Deserializable(col_dict)
       THEN decoded' = deserialize_column(col_dict) /\ cpc' = "done"
       ELSE cpc' = "raised" /\ UNCHANGED decoded
    /\ UNCHANGED <<column, col_dict>>
    /\ UNCHANGED <<restoreVars, backupVars>>

NextCodec ==
    \/ SerializeColumn
    \/ DeserializeColumn

SpecCodec == InitCodec /\ [][NextCodec]_vars

\* ---------------------------------------------------------------- the CLI
\* main(): parses the arguments, calls backup_database or restore_database
\* and falls off its end.  Both functions catch every exception and return
\* None on every path, and main does not look at what they return, so the
\* outcome of the run does not reach the value of main.
CliMain(command, outcome) == PyNone

\* The exit status of the process: 0 when main returns None.
ExitStatus(returned) == IF returned = PyNone THEN 0 ELSE 1

\* ------------------------------------------------------------ vocabulary
DocTables == 1..input_file.n

\* b is reached from a along at least one and at most k foreign keys.
RECURSIVE Reaches(_, _, _, _)
Reaches(fks, a, b, k) ==
    /\ k > 0
    /\ \/ b \in fks[a]
       \/ \E c \in fks[a] : Reaches(fks, c, b, k - 1)

\* No table reaches itself, not even through a self-reference.
Acyclic(doc) == \A t \in 1..doc.n : ~Reaches(doc.fks, t, t, doc.n)

\* Two different tables reach each other: a cycle of length >= 2.
HasCycle2(doc) ==
    \E a, b \in 1..doc.n :
        a # b /\ Reaches(doc.fks, a, b, doc.n) /\ Reaches(doc.fks, b, a, doc.n)

\* The tables of a graph: its keys and the tables they reference.
GraphTables(doc) == {t \in 1..doc.n : doc.fks[t] # {}} \cup UNION {doc.fks[t] : t \in 1..doc.n}

\* order lists every table of the graph once, each after the tables it
\* references.
ValidOrder(order, doc) ==
    /\ order # None
    /\ \A i, j \in 1..Len(order) : i # j => order[i] # order[j]
    /\ \A t \in GraphTables(doc) :
          /\ t \in Range(order)
          /\ \A d \in doc.fks[t] : d \in Range(order) /\ IndexOf(order, d) < IndexOf(order, t)

\* The datetime a text of a DateTime column stands for; null and a text that
\* is no date stand for themselves.
DenotedValue(v) ==
    CASE v = TextISO -> DT0
      [] v = TextFrac -> DT5
      [] v = TextSec -> DT0
      [] OTHER -> v

Parseable(v) == v \in {TextISO, TextFrac, TextSec}

\* An attempt ends without the success return.
AttemptFails == pc \notin {"while", "done"} /\ pc' \in {"while", "done"} /\ result' # "success"

\* ------------------------------------------------------------------ C1
\* C1: with max_retries = N >= 1, a call that met only the locked error, on
\* its first k attempts, succeeds for k < N on attempt k+1 after exactly k
\* retries and k delays; for k >= N it ends in failure after exactly N
\* attempts and never succeeds.  Every attempt after the first is preceded by
\* one delay.
C1_LockedRetries ==
    max_retries >= 1 =>
        /\ result = "success" =>
              /\ lockedCount < max_retries
              /\ attempts = lockedCount + 1
              /\ retries = lockedCount
              /\ sleeps = lockedCount
        /\ (result = "failed" /\ lastError \in {Locked, NoError}) =>
              /\ lockedCount = max_retries
              /\ attempts = max_retries
        /\ pc \notin {"while", "done"} => sleeps = attempts - 1 /\ lockedCount = attempts - 1

C1_Witness == result = "success" /\ lockedCount >= 1 /\ sleeps = lockedCount

\* ------------------------------------------------------------------ C2
\* C2: a further attempt starts only after an attempt that failed with the
\* locked error; an attempt that fails with anything else ends the call at
\* once: no further attempt, no delay, no increment of retries.
C2_OnlyLockedRetried ==
    [][/\ (attempts' = attempts + 1 /\ attempts >= 1) => lastError = Locked
       /\ (AttemptFails /\ lastError' # Locked) =>
              /\ pc' = "done"
              /\ result' = "failed"
              /\ retries' = retries
              /\ sleeps' = sleeps
              /\ attempts' = attempts
       /\ (pc = "done" /\ result = "failed") => attempts' = attempts]_vars

C2_Witness ==
    /\ result = "failed"
    /\ lastError \in {Operational, SQLAlchemy, OtherException, Cyclic}
    /\ lockedCount >= 1

\* ------------------------------------------------------------------ C3
\* C3: for an acyclic foreign-key graph topological_sort returns an order,
\* not None, in which every table comes after all tables it depends on.
C3_AcyclicGetsValidOrder ==
    (variant = "dbr" /\ resolved /\ Acyclic(input_file)) =>
        ValidOrder(sorted_tables, input_file)

\* ------------------------------------------------------------------ C4
\* C4: for a graph with a cycle of length >= 2 topological_sort returns None
\* and restore_database raises the cyclic-dependency error: no order is used,
\* no table is filled, the call fails.
C4_CycleReported ==
    (variant = "dbr" /\ HasCycle2(input_file)) =>
        /\ pc \notin {"insert", "enable", "commit"}
        /\ result # "success"
        /\ inserted = <<>>
        /\ resolved =>
              /\ sorted_tables = None
              /\ lastError = Cyclic
              /\ result = "failed"

C4_Witness ==
    /\ variant = "dbr"
    /\ HasCycle2(input_file)
    /\ resolved
    /\ lastError = Cyclic
    /\ result = "failed"

\* ------------------------------------------------------------------ C5
\* C5: a table whose only foreign key references itself is accepted: on the
\* graph {T: {T}} topological_sort returns an order containing T and the
\* restore is not aborted with the cyclic-dependency error.
SelfReferenceOnly(doc) ==
    \E t \in 1..doc.n : doc.fks[t] = {t} /\ \A u \in 1..doc.n : u # t => doc.fks[u] = {}

C5_SelfReferenceAccepted ==
    (variant = "dbr" /\ resolved /\ SelfReferenceOnly(input_file)) =>
        /\ sorted_tables # None
        /\ \A t \in DocTables : input_file.fks[t] = {t} => t \in Range(sorted_tables)
        /\ lastError # Cyclic

\* ------------------------------------------------------------------ C6
\* C6: whatever the order of the tables in the document, the rows of a table
\* are inserted only after the rows of every other table it references.
C6_ReferencedInsertedFirst ==
    \A i \in 1..Len(inserted) :
        \A d \in input_file.fks[inserted[i]] \ {inserted[i]} :
            \E j \in 1..(i - 1) : inserted[j] = d

\* ------------------------------------------------------------------ C7
\* The target holds, for every table of the document, one row per row of the
\* data list, with the values Value(_) of the document's values.
Reproduced(Value(_)) ==
    \A t \in DocTables :
        /\ t \in dbTables
        /\ Len(dbRows[t]) = Len(input_file.data[t])
        /\ \A i \in 1..Len(dbRows[t]) :
              /\ dbRows[t][i].id = input_file.data[t][i].id
              /\ dbRows[t][i].ts = Value(input_file.data[t][i].ts)

RestoredEmptyTarget == variant = "main" /\ result = "success" /\ db0Tables = {}

\* C7 as stated: after main.py's restore_database succeeds on an empty target
\* every table of the document exists and holds exactly the rows of its data
\* list, same count and same values.
C7_RowsReproduced == RestoredEmptyTarget => Reproduced(DenotedValue)

\* C7 amended: ... same count and same values, except that a non-null value
\* of a DateTime column that matches none of the formats is stored as null.
AmendedValue(v) == IF v # NULL /\ ~Parseable(v) THEN NULL ELSE DenotedValue(v)

C7_RowsReproducedAmended == RestoredEmptyTarget => Reproduced(AmendedValue)

C7_Witness ==
    /\ RestoredEmptyTarget
    /\ \E t \in DocTables : \E i \in 1..Len(input_file.data[t]) :
          input_file.data[t][i].ts = TextBad /\ dbRows[t][i].ts = NULL

\* ------------------------------------------------------------------ C8
\* C8: a successful restore of the same document run a second time leaves,
\* for every table of the document, the rows the first run left.
C8_Idempotent ==
    (second /\ result = "success") => \A t \in DocTables : dbRows[t] = rows1[t]

C8_Witness ==
    /\ second
    /\ result = "success"
    /\ \E t \in DocTables : t \in Range(inserted) /\ dbRows[t] # <<>>

\* ------------------------------------------------------------------ C9
\* C9: when restore_database ends in failure the target is exactly as it was
\* when the call started: no table created by it remains, no row change
\* persists.
C9_NoPartialCommit ==
    result = "failed" => dbTables = db0Tables /\ dbRows = db0Rows

\* ----------------------------------------------------------------- C10
\* C10: for a document in which A references B and B references A the restore
\* fails with the cyclic-dependency error before any table is created:
\* create_all is not issued in that attempt.
MutualCycle(doc) ==
    \E a, b \in 1..doc.n : a # b /\ b \in doc.fks[a] /\ a \in doc.fks[b]

C10_CycleBeforeCreate ==
    (variant = "dbr" /\ MutualCycle(input_file) /\ lastError = Cyclic) =>
        ~created /\ dbTables = db0Tables

\* ----------------------------------------------------------------- C11
\* C11: when db_backup_restore.py's resolver reports a cycle (or the restore
\* raises the cyclic-dependency error on its falsy result) the call ends
\* there, and in that attempt no row of any target table was deleted or
\* inserted: no table was cleared or filled, and the rows in the target and
\* in the transaction are those the call started with.
C11_CycleTouchesNoData ==
    lastError = Cyclic =>
        /\ variant = "dbr"
        /\ pc = "done"
        /\ result = "failed"
        /\ inserted = <<>>
        /\ dbRows = db0Rows
        /\ txRows = db0Rows

C11_Witness ==
    /\ lastError = Cyclic
    /\ sorted_tables = None
    /\ created
    /\ \E t \in DocTables : db0Rows[t] # <<>> /\ dbRows[t] = db0Rows[t]

\* ----------------------------------------------------------------- C12
\* C12: backup_database opens and writes the output file only after every
\* table has been serialized, and after a failed backup the output path holds
\* what it held before the call or a complete document.
C12_NoPartialArtifact ==
    /\ output_file # output0 =>
          /\ Len(backup_tables) = Len(reflected)
          /\ bpc \in {"dump", "done"}
    /\ bresult = "failed" =>
          \/ output_file = output0
          \/ output_file = [exists |-> TRUE, content |-> DumpChunks(backup_tables, relationships)]

\* ----------------------------------------------------------------- C13
\* C13: in every successful attempt of restore_database the phases happen
\* once each and in the order DisableConstraints, DefineTables, CreateTables,
\* ResolveOrder, InsertData (once per table filled), EnableConstraints,
\* Commit.
C13_PhaseOrder ==
    result = "success" =>
        phases = <<"DisableConstraints", "DefineTables", "CreateTables", "ResolveOrder">>
                 \o [i \in 1..Len(inserted) |-> "InsertData"]
                 \o <<"EnableConstraints", "Commit">>

\* ----------------------------------------------------------------- C14
\* C14: every attempt, retries included, starts from fresh table definitions
\* and re-reads the document from the input file: once loaded the document is
\* the file's, whatever an earlier attempt left behind; the rows of a table
\* not yet filled are the file's; the order used by db_backup_restore.py was
\* resolved in this attempt; and no step changes the input file.
FreshAttempt ==
    /\ pc \in {"connect", "disable", "load"} => metadata = {} /\ inserted = <<>> /\ ~resolved
    /\ pc \in {"define", "create", "resolve"} => backup_data = input_file
    /\ pc = "insert" =>
          /\ \A t \in DocTables \ Range(inserted) : backup_data.data[t] = input_file.data[t]
          /\ variant = "dbr" =>
                resolved /\ sorted_tables = topological_sort(DependencyGraph(input_file))

C14_RereadEachAttempt == []FreshAttempt /\ [][input_file' = input_file]_vars

C14_Witness ==
    /\ attempts >= 2
    /\ pc = "load"
    /\ backup_data # NoDocument
    /\ backup_data # input_file

\* ----------------------------------------------------------------- C15
\* C15: for every column serialize_column accepts,
\* deserialize_column(serialize_column(c)) has the name, the nullable flag,
\* the primary_key flag and the unique flag of c.
C15_FlagsRoundTrip ==
    cpc = "done" =>
        /\ decoded.name = column.name
        /\ decoded.nullable = column.nullable
        /\ decoded.primary_key = column.primary_key
        /\ decoded.unique = column.unique

C15_Witness ==
    /\ cpc = "done"
    /\ column.name = "status"
    /\ ~column.nullable
    /\ column.primary_key
    /\ column.unique = PyTrue
    /\ decoded.unique = PyTrue

\* ----------------------------------------------------------------- C16
\* C16 as stated: the decoded column's default equals the original default
\* value, and a column without a default decodes to one without a default.
C16_DefaultExact == cpc = "done" => decoded.default = column.default

\* C16 amended: the decoded column's default is the string form str() of the
\* original default value, equal to the original only when that is a string;
\* a column without a default decodes to one without a default.
C16_DefaultAsText ==
    cpc = "done" =>
        /\ column.default = PyNone => decoded.default = PyNone
        /\ column.default # PyNone =>
              /\ decoded.default = str(column.default)
              /\ decoded.default = column.default <=> column.default.py = "str"

C16_Witness ==
    /\ cpc = "done"
    /\ column.default = Py("int", "0")
    /\ decoded.default = Py("str", "0")

\* ----------------------------------------------------------------- C17
\* C17: for a column whose type is one of the eleven supported classes
\* serialize_column emits that class's own name (with the length of a String,
\* the member list of an Enum, the element type of an ARRAY), and the decoded
\* column has the same type class.
C17_OwnTypeName ==
    (cpc \in {"deserialize", "done"} /\ column.type.class \in STRING_TO_SQLALCHEMY_TYPE) =>
        /\ col_dict.type.type = column.type.class
        /\ column.type.class = "String" => col_dict.type.length = column.type.length
        /\ column.type.class = "Enum" => col_dict.type.enum_values = column.type.enums
        /\ column.type.class = "ARRAY" => col_dict.type.item_type = column.type.item_type
        /\ cpc = "done" => decoded.type.class = column.type.class

\* ----------------------------------------------------------------- C18
\* C18: when some column descriptor of the document has a type name the
\* reverse table lacks, whichever table holds it, restore_database never
\* reaches create_all, creates no table in the target and does not succeed;
\* the error of deserialize_column ends the call at once, without a retry.
HasUnknownType(doc) == \E t \in 1..doc.n : doc.coltype[t] \notin STRING_TO_SQLALCHEMY_TYPE

C18_UnknownTypeFatal ==
    HasUnknownType(input_file) =>
        /\ pc \notin {"create", "resolve", "insert", "enable", "commit"}
        /\ ~created
        /\ dbTables = db0Tables
        /\ result # "success"
        /\ pc = "done" => result = "failed"
        /\ lastError = UnsupportedType => pc = "done" /\ sleeps = lockedCount

C18_Witness ==
    /\ lastError = UnsupportedType
    /\ result = "failed"
    /\ input_file.coltype[1] \in STRING_TO_SQLALCHEMY_TYPE
    /\ metadata = {1}
    /\ dbTables = db0Tables

\* ----------------------------------------------------------------- C19
\* C19: restoring a document of an unknown version fails: for such a
\* document no table is defined, created or filled, and the call never
\* succeeds.
C19_UnknownVersionRejected ==
    input_file.version # DefaultVersion =>
        /\ metadata = {}
        /\ ~created
        /\ inserted = <<>>
        /\ result # "success"

\* ----------------------------------------------------------------- C20
\* C20: a non-null value of the DateTime column that matches none of the
\* formats restore_database tries never makes the attempt fail, and after a
\* successful restore it is stored as null.
Unmatched(v) ==
    /\ v # NULL
    /\ fromisoformat(v) = ValueError
    /\ strptime_f(v) = ValueError
    /\ variant = "main" => strptime_s(v) = ValueError

C20_UnmatchedBecomesNull ==
    /\ lastError # BadDatetime
    /\ result = "success" =>
          \A t \in Range(inserted) : \A i \in 1..Len(input_file.data[t]) :
              Unmatched(input_file.data[t][i].ts) => dbRows[t][i].ts = NULL

\* ----------------------------------------------------------------- C21
\* C21: an index whose name contains no column name of its table never
\* causes an error: past DefineTables every table of the document is defined,
\* none of them carries that index, and the restore does not fail over it.
HasUnmatchedIndex(doc) ==
    \E t \in 1..doc.n : \E i \in 1..Len(doc.indexes[t]) :
        IndexColumns(doc.columns[t], doc.indexes[t][i]) = <<>>

PastDefine == pc \in {"create", "resolve", "insert", "enable", "commit"}

C21_UnmatchedIndexSkipped ==
    HasUnmatchedIndex(input_file) =>
        /\ lastError # EmptyIndex
        /\ PastDefine =>
              \A t \in DocTables :
                  /\ t \in metadata
                  /\ \A i \in 1..Len(table_indexes[t]) : table_indexes[t][i].columns # <<>>

\* ----------------------------------------------------------------- C28
\* C28: past DefineTables, an index of the table orders named
\* ix_orders_<column> after one of the table's columns is attached to that
\* one column and to no other.
C28_IndexOnNamedColumn ==
    PastDefine =>
        \A t \in DocTables : \A i \in 1..Len(input_file.indexes[t]) :
            \A c \in 1..Len(input_file.columns[t]) :
                LET idx == input_file.indexes[t][i]
                    col_name == input_file.columns[t][c]
                IN idx = IndexName(NameOrders, col_name) =>
                       \E j \in 1..Len(table_indexes[t]) :
                           /\ table_indexes[t][j].name = idx
                           /\ table_indexes[t][j].columns = <<col_name>>

\* ----------------------------------------------------------------- C22
\* C22: the document backup_database has written holds a 'relationships'
\* entry exactly when include_relationships is set; the entry maps every
\* backed-up table to one entry per foreign key of the table: none for a
\* table without foreign keys, and for user_id -> users.id exactly one,
\* naming users and id.
C22_RelationshipsEntry ==
    bresult = "success" =>
        LET content == output_file.content
            entries == {k \in 1..Len(content) : content[k].kind = "relationships"}
        IN /\ entries # {} <=> include_relationships
           /\ \A k \in entries :
                 LET map == content[k].body.map
                 IN /\ DOMAIN map = 1..Len(reflected)
                    /\ \A t \in 1..Len(reflected) :
                          /\ Cardinality(map[t]) = Cardinality(reflected[t].foreign_keys)
                          /\ reflected[t].name = "user_id" =>
                                map[t] = {[column |-> "user_id", referenced_table |-> "users",
                                           referenced_column |-> "id"]}

C22_Witness ==
    /\ bresult = "success"
    /\ include_relationships
    /\ \E k \in 1..Len(output_file.content) : output_file.content[k].kind = "relationships"
    /\ \E t, u \in 1..Len(reflected) :
          reflected[t].name = "user_id" /\ reflected[u].foreign_keys = {}

\* ----------------------------------------------------------------- C23
\* C23: a restore or backup started through the CLI that fails ends with a
\* non-zero exit status, one that succeeds ends with status 0.
C23_ExitStatusSignals ==
    /\ pc = "done" => (ExitStatus(CliMain("restore", result)) = 0 <=> result = "success")
    /\ bpc = "done" => (ExitStatus(CliMain("backup", bresult)) = 0 <=> bresult = "success")

\* ----------------------------------------------------------------- C24
\* The rows of table t as they stand in the transaction equal the rows of
\* the document outside the non-null values of the temporal columns.
PassThrough(t, stored) ==
    LET given == input_file.data[t]
    IN /\ Len(stored) = Len(given)
       /\ \A i \in 1..Len(given) :
             /\ \A col \in DOMAIN given[i] \ datetime_columns : stored[i][col] = given[i][col]
             /\ \A col \in datetime_columns : given[i][col] = NULL => stored[i][col] = NULL

\* C24: the coercer changes only the non-null values of the DateTime/Date
\* columns; every value of another column and every null of a temporal
\* column is inserted as it stands in the document.
C24_OnlyTemporalCoerced ==
    /\ pc \in {"insert", "enable", "commit"} =>
          \A t \in Range(inserted) : PassThrough(t, txRows[t])
    /\ (pc = "done" /\ result = "success") =>
          \A t \in Range(inserted) : PassThrough(t, dbRows[t])

C24_Witness ==
    /\ pc = "done"
    /\ result = "success"
    /\ \E t \in Range(inserted) : \E i \in 1..Len(dbRows[t]) :
          /\ input_file.data[t][i].ts = NULL
          /\ dbRows[t][i].ts = NULL
          /\ dbRows[t][i].note = TextISO
          /\ fromisoformat(TextISO) # TextISO

\* ----------------------------------------------------------------- C25
\* C25: topological_sort counts the in-degree on the referenced side, takes
\* the tables of in-degree zero first, and popping a table lowers by one the
\* in-degree of exactly the tables it references, enqueuing each one that
\* reaches zero.
C25_PopRelaxesReferenced ==
    (variant = "dbr" /\ resolved) =>
        LET graph == DependencyGraph(backup_data)
            in_degree == InDegree(graph)
            queue == SelectSeq(graph.keys, LAMBDA t : in_degree[t] = 0)
        IN /\ \A x \in AllTables :
                 in_degree[x] = Cardinality({k \in Range(graph.keys) : x \in graph.adj[k]})
           /\ \A table \in Range(queue) :
                 LET r == Relax(graph, table, 1, in_degree, <<>>)
                 IN /\ \A x \in AllTables :
                          r.in_degree[x] =
                              in_degree[x] - (IF x \in graph.adj[table] THEN 1 ELSE 0)
                    /\ Range(r.queue) =
                          {x \in graph.adj[table] : x \in Range(graph.keys) /\ in_degree[x] = 1}

\* ----------------------------------------------------------------- C26
\* C26: restore_database always terminates: whatever max_retries and the
\* pattern of store errors, a call performs at most max_retries attempts and
\* then returns, provided each store call returns; within a call the retry
\* counter only grows, by one per locked attempt.
C26_Terminates ==
    /\ (pc = "while") ~> (pc = "done")
    /\ [](attempts <= max_retries)
    /\ [][retries' # retries =>
             \/ retries' = retries + 1 /\ lastError' = Locked /\ lockedCount' = lockedCount + 1
             \/ pc = "done" /\ pc' = "while" /\ retries' = 0]_vars

C26_Witness ==
    /\ pc = "done"
    /\ result = "failed"
    /\ max_retries = MaxRetriesArg
    /\ attempts = max_retries
    /\ retries = max_retries
    /\ lockedCount = max_retries

\* ----------------------------------------------------------------- C27
\* C27: the row changes of an attempt are atomic across tables: they are
\* committed only after every phase of the attempt succeeded and rolled back
\* on any error, so after an attempt that failed, whatever it had cleared or
\* filled, the rows of every table are as they were before it.
C27_AttemptAtomic ==
    /\ result # "success" => dbRows = db0Rows
    /\ (pc = "while" \/ result = "failed") => txRows = dbRows
    /\ result = "success" =>
          /\ phases[Len(phases)] = "Commit"
          /\ "EnableConstraints" \in Range(phases)
          /\ lastError = NoError \/ attempts > 1

C27_Witness ==
    /\ result = "failed"
    /\ \E t \in Range(inserted) :
          /\ db0Rows[t] # <<>>
          /\ input_file.data[t] # <<>>
          /\ dbRows[t] = db0Rows[t]
          /\ txRows[t] = db0Rows[t]

\* ----------------------------------------------------------------- C29
\* C29: in src/db_backup_restore.py a successful restore visits every table
\* of the document exactly once in InsertData: the resolved order contains
\* every table of the document, also those without foreign keys and those
\* that are only referenced.
C29_EveryTableVisited ==
    (variant = "dbr" /\ pc = "done" /\ result = "success") =>
        /\ Range(sorted_tables) = DocTables
        /\ Range(inserted) = DocTables
        /\ Len(inserted) = input_file.n

\* ----------------------------------------------------------------- C30
\* C30: in src/db_backup_restore.py restoring a document in which no table
\* has a foreign key succeeds when the store raises nothing: the
\* cyclic-dependency error is raised only for a graph that contains a cycle.
C30_CyclicOnlyForCycles ==
    /\ (variant = "dbr" /\ lastError = Cyclic) => ~Acyclic(input_file)
    /\ (variant = "dbr" /\ pc = "done" /\ result = "failed" /\ lockedCount = 0
          /\ \A t \in DocTables : input_file.fks[t] = {})
         => lastError # Cyclic

\* ----------------------------------------------------------------- C31
\* C31: an attempt that has suspended foreign-key enforcement restores it
\* before the attempt ends, on every exit path: also when the attempt fails
\* with the locked condition or with a fatal error after DisableConstraints.
C31_EnforcementRestored ==
    (pc \in {"while", "done"} /\ "DisableConstraints" \in Range(phases)) =>
        foreign_keys = "ON"

\* ----------------------------------------------------------------- C32
\* C32: restore_database performs at least one attempt for every value of
\* max_retries the CLI accepts, 0 included: it never reports the terminal
\* failure without having tried once.
C32_TriesOnce ==
    (pc = "done" /\ result = "failed") => attempts >= 1

\* ----------------------------------------------------------------- C33
\* C33: a restore changes only the tables named in the document: a table of
\* the target that the document does not name exists, or not, as before the
\* restore and has the rows it had, in the store and inside the attempt's
\* transaction, whether the restore succeeds or fails.
C33_OtherTablesUntouched ==
    \A t \in AllTables \ DocTables :
        /\ t \in dbTables <=> t \in db0Tables
        /\ dbRows[t] = db0Rows[t]
        /\ txRows[t] = db0Rows[t]

C33_Witness ==
    /\ pc = "done"
    /\ result = "success"
    /\ \E t \in db0Tables \ DocTables : db0Rows[t] # <<>> /\ dbRows[t] = db0Rows[t]
    /\ \E t \in DocTables : t \in db0Tables /\ dbRows[t] # db0Rows[t]

====
